---- MODULE Spec2Model ----
(***************************************************************************)
(* The task routes of the to-do list backend (src/routes/tasks.js) over    *)
(* the Task collection (src/unnamed/part_000, the mongoose model).         *)
(*                                                                         *)
(* tasks is the collection, one record per document.  Every request is one *)
(* action: it runs the whole handler, from the validation chain to the     *)
(* response.  req is the request that ran last and resp its response.      *)
(* Time is a clock of ticks; a request arrives at `now` and its handler    *)
(* ends at now or now + 1, which is the clock the save-time validators of  *)
(* the schema read.  A text is a sequence of one-character strings, an     *)
(* optional value (dueDate, reminder, completedAt) is a set of at most one *)
(* timestamp.  A body or a query is a function whose DOMAIN is the set of  *)
(* keys the caller sent.                                                   *)
(*                                                                         *)
(* The specifications share the handlers and differ in the requests they   *)
(* send: Spec (status), SpecOwner (owner), SpecList (List and Delete),     *)
(* SpecRoute (PUT /reorder through the router), SpecDates (dueDate and     *)
(* reminder against the clock) and SpecReorder (the reorder handler run    *)
(* on its own, one write at a time).                                       *)
(***************************************************************************)
EXTENDS Integers, Sequences, FiniteSets, TLC

VARIABLES tasks, now, nextId, req, resp, creator, bulk

vars == <<tasks, now, nextId, req, resp, creator, bulk>>

(* ------------------------------ bounds -------------------------------- *)

MaxTasks == 2
MaxDated == 1
MaxTime == 2
DayLen == 2

(* --------------------------- program constants ------------------------ *)

MaxTitleLen == 100
MaxDescriptionLen == 500

Categories == {"Personal", "Work", "Study", "Health", "Other"}
Priorities == {"Low", "Medium", "High"}
Statuses == {"Pending", "In Progress", "Completed"}

DefaultCategory == "Personal"
DefaultPriority == "Medium"
DefaultStatus == "Pending"
DefaultOrder == 0

(* ------------------------------ universe ------------------------------ *)

Min(a, b) == IF a <= b THEN a ELSE b

Users == {"u1", "u2"}

\* The ObjectIds `new Task` hands out, in the order it hands them out.
ObjectIds == <<"t1", "t2", "t3", "t4">>

Ids == {ObjectIds[i] : i \in 1..MaxTasks}

\* A string is an ObjectId when mongoose can cast it to one; the path
\* segment "reorder" is not.
isObjectId(s) == \E i \in 1..Len(ObjectIds) : ObjectIds[i] = s

\* The path segments requests name: the first `cap` identifiers and "reorder".
PathSegments(cap) == {ObjectIds[i] : i \in 1..Min(cap, MaxTasks)} \cup {"reorder"}

(* ------------------------------- texts -------------------------------- *)

RECURSIVE TrimStart(_)
TrimStart(s) == IF s # <<>> /\ Head(s) = " " THEN TrimStart(Tail(s)) ELSE s

RECURSIVE TrimEnd(_)
TrimEnd(s) ==
  IF s # <<>> /\ s[Len(s)] = " " THEN TrimEnd(SubSeq(s, 1, Len(s) - 1)) ELSE s

Trim(s) == TrimEnd(TrimStart(s))

(* ------------------------- bodies and queries ------------------------- *)

Has(body, k) == k \in DOMAIN body

With(body, k, v) ==
  [x \in (DOMAIN body) \cup {k} |-> IF x = k THEN v ELSE body[x]]

Without(body, k) == [x \in (DOMAIN body) \ {k} |-> body[x]]

Empty == [x \in {} |-> 0]

\* new Date(value) of an ISO 8601 string: its timestamp.
NewDate(v) == v.ms

\* JavaScript truthiness of a query string.
Truthy(v) == v # ""

(* --------------------------- validateTask ----------------------------- *)

Error(path, msg) == [path |-> path, msg |-> msg]

titleErrors(body) ==
  LET v == IF Has(body, "title") THEN Trim(body.title) ELSE <<>> IN
  IF v = <<>> THEN {Error("title", "Title is required")}
  ELSE IF Len(v) > MaxTitleLen
       THEN {Error("title", "Title cannot be more than 100 characters")}
       ELSE {}

descriptionErrors(body) ==
  IF Has(body, "description") /\ Len(Trim(body.description)) > MaxDescriptionLen
  THEN {Error("description", "Description cannot be more than 500 characters")}
  ELSE {}

categoryErrors(body) ==
  IF Has(body, "category") /\ body.category \in Categories
  THEN {} ELSE {Error("category", "Invalid category")}

priorityErrors(body) ==
  IF Has(body, "priority") /\ body.priority \in Priorities
  THEN {} ELSE {Error("priority", "Invalid priority level")}

statusErrors(body) ==
  IF Has(body, "status") /\ body.status \notin Statuses
  THEN {Error("status", "Invalid status")} ELSE {}

\* The comparison written <, which lets a date equal to the clock through.
NotInFutureReqStrict(v, clock) == NewDate(v) < clock

\* The custom validator of dueDate and of reminder: value && new Date(value) <= new Date().
NotInFutureReq(v, clock) == NewDate(v) <= clock

dateErrors(body, k, clock, formatMsg, futureMsg) ==
  IF ~Has(body, k) THEN {}
  ELSE IF ~body[k].iso THEN {Error(k, formatMsg)}
  ELSE IF NotInFutureReq(body[k], clock) THEN {Error(k, futureMsg)}
  ELSE {}

validateTask(body, clock) ==
  titleErrors(body) \cup descriptionErrors(body) \cup categoryErrors(body)
    \cup priorityErrors(body) \cup statusErrors(body)
    \cup dateErrors(body, "dueDate", clock, "Invalid due date format",
                    "Due date must be in the future")
    \cup dateErrors(body, "reminder", clock, "Invalid reminder date format",
                    "Reminder must be in the future")

\* The sanitizers of the chain rewrite the request: title and description trimmed.
Sanitized(body) ==
  [k \in DOMAIN body |->
     IF k \in {"title", "description"} THEN Trim(body[k]) ELSE body[k]]

(* ----------------------------- taskSchema ----------------------------- *)

SchemaPaths ==
  {"title", "description", "category", "priority", "status", "dueDate",
   "reminder", "order", "user", "completedAt"}

\* What a path holds once mongoose has cast the value assigned to it.
Cast(k, v) ==
  IF k \in {"dueDate", "reminder"} THEN {NewDate(v)}
  ELSE IF k \in {"title", "description"} THEN Trim(v)
  ELSE v

\* The validator of dueDate and of reminder: !value || value > new Date().
InFutureSchema(value, clock) == \A d \in value : d > clock

\* The paths of `doc` among `paths` that fail the schema's validation at `clock`.
schemaErrors(doc, paths, clock) ==
  {k \in paths \cap {"dueDate", "reminder"} : ~InFutureSchema(doc[k], clock)}
    \cup {k \in paths \cap {"title"} : doc.title = <<>> \/ Len(doc.title) > MaxTitleLen}
    \cup {k \in paths \cap {"description"} : Len(doc.description) > MaxDescriptionLen}
    \cup {k \in paths \cap {"category"} : doc.category \notin Categories}
    \cup {k \in paths \cap {"priority"} : doc.priority \notin Priorities}
    \cup {k \in paths \cap {"status"} : doc.status \notin Statuses}

\* A fresh document with the schema's defaults.
Defaults(id, clock) ==
  [_id |-> id, title |-> <<>>, description |-> <<>>,
   category |-> DefaultCategory, priority |-> DefaultPriority,
   status |-> DefaultStatus, dueDate |-> {}, reminder |-> {},
   order |-> DefaultOrder, user |-> "", createdAt |-> clock, completedAt |-> {}]

\* task[key] = body[key] for every key of the body that is a path of the schema.
Assign(task, body) ==
  [k \in DOMAIN task |->
     IF k \in SchemaPaths /\ Has(body, k) THEN Cast(k, body[k]) ELSE task[k]]

Modified(old, new) == {k \in SchemaPaths : old[k] # new[k]}

(* ------------------------------ requests ------------------------------ *)

Request(op, u, id, body, query) ==
  [op |-> op, user |-> u, id |-> id, body |-> body, query |-> query, at |-> now]

Response(code, errors, data) == [code |-> code, errors |-> errors, data |-> data]

Slots == {"r1", "r2"}

Idle == [pc |-> "idle", user |-> "", ops |-> <<>>, i |-> 0]

Init ==
  /\ tasks = {}
  /\ now = 0
  /\ nextId = 1
  /\ req = Request("None", "", "", Empty, Empty)
  /\ resp = Response(0, {}, <<>>)
  /\ creator = Empty
  /\ bulk = [p \in Slots |-> Idle]

\* The filter without its user, { _id }.
findById(id, u) == {d \in tasks : d._id = id}

\* Task.find / findOne / findOneAndDelete with the filter { _id, user }.
findOwned(id, u) == {d \in tasks : d._id = id /\ d.user = u}

(* ------------------------- POST /  (lines 72-100) --------------------- *)

\* The spread written the other way round, { user: req.user.id, ...req.body }.
NewTaskFieldsBodyLast(body, u) == IF Has(body, "user") THEN body ELSE With(body, "user", u)

\* { ...req.body, user: req.user.id }
NewTaskFields(body, u) == With(body, "user", u)

CreateTask(u, body, done, cap) ==
  LET errors == validateTask(body, now)
      id == ObjectIds[nextId]
      task == Assign(Defaults(id, now), NewTaskFields(Sanitized(body), u))
      invalid == schemaErrors(task, SchemaPaths, done)
  IN /\ errors = {} => nextId <= Min(cap, MaxTasks)
     /\ req' = Request("Create", u, "", body, Empty)
     /\ now' = done
     /\ UNCHANGED bulk
     /\ IF errors # {}
        THEN /\ resp' = Response(400, errors, <<>>)
             /\ UNCHANGED <<tasks, nextId, creator>>
        ELSE IF invalid # {}
        THEN /\ resp' = Response(500, {}, <<>>)
             /\ UNCHANGED <<tasks, nextId, creator>>
        ELSE /\ tasks' = tasks \cup {task}
             /\ nextId' = nextId + 1
             /\ creator' = With(creator, id, u)
             /\ resp' = Response(201, {}, <<task>>)

(* ------------------------ PUT /:id  (lines 103-144) ------------------- *)

\* req.body.status === 'Completed' && task.status !== 'Completed', read after
\* the body's keys have been assigned to the task.
EntersCompleted(body, task) ==
  Has(body, "status") /\ body.status = "Completed" /\ task.status # "Completed"

\* The paths save() validates of a document it loaded: the modified ones.
PathsToValidate(old, new) == Modified(old, new)

UpdateTask(u, id, body, done) ==
  LET errors == validateTask(body, now)
      found == findOwned(id, u)
  IN /\ req' = Request("Update", u, id, body, Empty)
     /\ now' = done
     /\ UNCHANGED <<nextId, creator, bulk>>
     /\ IF errors # {}
        THEN /\ resp' = Response(400, errors, <<>>)
             /\ UNCHANGED tasks
        ELSE IF ~isObjectId(id)
        THEN /\ resp' = Response(500, {}, <<>>)
             /\ UNCHANGED tasks
        ELSE IF found = {}
        THEN /\ resp' = Response(404, {}, <<>>)
             /\ UNCHANGED tasks
        ELSE LET old == CHOOSE d \in found : TRUE
                 assigned == Assign(old, Sanitized(body))
                 task == IF EntersCompleted(Sanitized(body), assigned)
                         THEN [assigned EXCEPT !.completedAt = {now}]
                         ELSE assigned
                 invalid == schemaErrors(task, PathsToValidate(old, task), done)
             IN IF invalid # {}
                THEN /\ resp' = Response(500, {}, <<>>)
                     /\ UNCHANGED tasks
                ELSE /\ tasks' = (tasks \ {old}) \cup {task}
                     /\ resp' = Response(200, {}, <<task>>)

(* ----------------------- DELETE /:id  (lines 147-168) ----------------- *)

DeleteTask(u, id) ==
  LET found == findOwned(id, u)
  IN /\ req' = Request("Delete", u, id, Empty, Empty)
     /\ UNCHANGED <<now, nextId, creator, bulk>>
     /\ IF ~isObjectId(id)
        THEN /\ resp' = Response(500, {}, <<>>)
             /\ UNCHANGED tasks
        ELSE IF found = {}
        THEN /\ resp' = Response(404, {}, <<>>)
             /\ UNCHANGED tasks
        ELSE /\ tasks' = tasks \ found
             /\ resp' = Response(200, {}, <<>>)

(* -------------------------- GET /  (lines 39-69) ---------------------- *)

StartOfDay(t) == t - (t % DayLen)

EndOfDay(t) == StartOfDay(t) + DayLen - 1

\* The query without the caller, that is without { user: req.user.id }.
MatchesAnyOwner(d, u, query) ==
  /\ \A k \in {"category", "status", "priority"} :
       (Has(query, k) /\ Truthy(query[k])) => d[k] = query[k]
  /\ Has(query, "dueDate") =>
       \E x \in d.dueDate : /\ x >= StartOfDay(NewDate(query.dueDate))
                            /\ x <= EndOfDay(NewDate(query.dueDate))

\* The filter the handler builds from req.query and req.user.id.
Matches(d, u, query) ==
  /\ d.user = u
  /\ \A k \in {"category", "status", "priority"} :
       (Has(query, k) /\ Truthy(query[k])) => d[k] = query[k]
  /\ Has(query, "dueDate") =>
       \E x \in d.dueDate : /\ x >= StartOfDay(NewDate(query.dueDate))
                            /\ x <= EndOfDay(NewDate(query.dueDate))

\* .sort({ order: 1 }): every arrangement of S with order ascending; the store
\* settles the place of documents of equal order.
SortedByOrder(S) ==
  {s \in [1..Cardinality(S) -> S] :
     /\ \A i, j \in 1..Cardinality(S) : i # j => s[i] # s[j]
     /\ \A i, j \in 1..Cardinality(S) : i < j => s[i].order <= s[j].order}

ListTasks(u, query) ==
  /\ req' = Request("List", u, "", Empty, query)
  /\ \E data \in SortedByOrder({d \in tasks : Matches(d, u, query)}) :
       resp' = Response(200, {}, data)
  /\ UNCHANGED <<tasks, now, nextId, creator, bulk>>

(* ---------------------- PUT /reorder  (lines 171-201) ----------------- *)

\* tasks.map((task, index) => updateOne { filter { _id, user }, $set { order: index } })
bulkOps(body, u) ==
  [i \in 1..Len(body.tasks) |->
     [_id |-> body.tasks[i]._id, user |-> u, order |-> i - 1]]

\* The updateOne with the filter { _id } alone.
updateOneAnyOwner(coll, op) ==
  {IF d._id = op._id THEN [d EXCEPT !.order = op.order] ELSE d : d \in coll}

\* One updateOne of the bulk write, on the collection `coll`.
updateOne(coll, op) ==
  {IF d._id = op._id /\ d.user = op.user THEN [d EXCEPT !.order = op.order] ELSE d :
     d \in coll}

RECURSIVE bulkWrite(_, _)
bulkWrite(coll, ops) ==
  IF ops = <<>> THEN coll ELSE bulkWrite(updateOne(coll, Head(ops)), Tail(ops))

ReorderTasks(u, body, done) ==
  /\ req' = Request("Reorder", u, "reorder", body, Empty)
  /\ now' = done
  /\ UNCHANGED <<nextId, creator, bulk>>
  /\ IF ~Has(body, "tasks")
     THEN /\ resp' = Response(400, {}, <<>>)
          /\ UNCHANGED tasks
     ELSE /\ tasks' = bulkWrite(tasks, bulkOps(body, u))
          /\ resp' = Response(200, {}, <<>>)

(* ------------------------------- router ------------------------------- *)

\* The PUT routes in the order the router registered them.
PutRoutes == <<"/:id", "/reorder">>

RouteMatches(route, seg) == route = "/:id" \/ (route = "/reorder" /\ seg = "reorder")

\* The first registered route whose path matches handles the request.
PutRoute(seg) ==
  PutRoutes[CHOOSE i \in 1..Len(PutRoutes) :
              /\ RouteMatches(PutRoutes[i], seg)
              /\ \A j \in 1..(i - 1) : ~RouteMatches(PutRoutes[j], seg)]

PutRequest(u, seg, body, done) ==
  IF PutRoute(seg) = "/:id"
  THEN UpdateTask(u, seg, body, done)
  ELSE ReorderTasks(u, body, done)

(* ------------------------------- inputs ------------------------------- *)

\* The clock at which a handler that arrives at `now` ends, up to the horizon h.
Ends(h) == now..Min(now + 1, Min(h, MaxTime))

\* At most `cap` tasks are ever created.
Create(U, B, h, cap) ==
  \E u \in U, body \in B, done \in Ends(h) : CreateTask(u, body, done, cap)

Put(U, B, h, cap) ==
  \E u \in U, seg \in PathSegments(cap), body \in B, done \in Ends(h) :
    PutRequest(u, seg, body, done)

Delete(U, cap) == \E u \in U, seg \in PathSegments(cap) : DeleteTask(u, seg)

List(U, Q) == \E u \in U, query \in Q : ListTasks(u, query)

Base == [title |-> <<"a">>, category |-> "Work", priority |-> "Low"]

Iso(t) == [iso |-> TRUE, ms |-> t]

NotIso == [iso |-> FALSE, ms |-> 0]

\* A title of MaxTitleLen + 1 characters.
LongTitle == [i \in 1..(MaxTitleLen + 1) |-> "x"]

(* ------------------ the status of a task: Spec ------------------------ *)

StatusBodies ==
  {Base, With(Base, "status", "Completed"), With(Base, "status", "In Progress"),
   With(Base, "status", "Pending"), [status |-> "Completed"]}

Next ==
  \/ Create(Users, StatusBodies, 1, MaxTasks)
  \/ Put(Users, StatusBodies, 1, MaxTasks)
  \/ Delete(Users, MaxTasks)
  \/ List(Users, {Empty})

Spec == Init /\ [][Next]_vars

(* ------------------------------ claims -------------------------------- *)

\* The stored form of the task a request names, before and after a step.
Named(coll, r) == {d \in coll : d._id = r.id}

\* C1 as the claim states it: a successful Update that sets status to Completed
\* on an owned task whose status is Pending or In Progress leaves completedAt
\* set to the time of that update, which is not before createdAt; and a
\* successful Update that moves a Completed task back to Pending leaves its
\* completedAt as it was.
C1_CompletedAtStamped ==
  [][\A d \in tasks :
       (/\ req'.op = "Update" /\ resp'.code = 200
        /\ d._id = req'.id /\ d.user = req'.user
        /\ Has(req'.body, "status"))
       => \A e \in Named(tasks', req') :
            /\ (d.status \in {"Pending", "In Progress"} /\ req'.body.status = "Completed")
                 => /\ \E t \in (req'.at)..now' : e.completedAt = {t}
                    /\ \A t \in e.completedAt : t >= e.createdAt
            /\ (d.status = "Completed" /\ req'.body.status = "Pending")
                 => e.completedAt = d.completedAt]_vars

\* The fields of a body that are supplied are valid, each by the rule of its field.
SuppliedValid(body, clock) ==
  /\ Has(body, "title") => (Trim(body.title) # <<>> /\ Len(Trim(body.title)) <= MaxTitleLen)
  /\ Has(body, "description") => Len(Trim(body.description)) <= MaxDescriptionLen
  /\ Has(body, "category") => body.category \in Categories
  /\ Has(body, "priority") => body.priority \in Priorities
  /\ Has(body, "status") => body.status \in Statuses
  /\ \A k \in {"dueDate", "reminder"} :
       Has(body, k) => (body[k].iso /\ body[k].ms > clock)

\* C3 as the claim states it: an Update of an owned task whose body holds only
\* valid fields, whichever they are, succeeds, sets the supplied fields and
\* leaves every other field of the task as it was (completedAt aside, which
\* the update may stamp).
C3_PartialUpdate ==
  [][\A d \in tasks :
       (/\ req'.op = "Update" /\ d._id = req'.id /\ d.user = req'.user
        /\ DOMAIN req'.body \subseteq SchemaPaths
        /\ ~Has(req'.body, "user")
        /\ SuppliedValid(req'.body, now'))
       => /\ resp'.code = 200
          /\ \E e \in tasks' :
               /\ e._id = d._id
               /\ \A k \in (DOMAIN d) \ {"completedAt"} :
                    e[k] = IF Has(req'.body, k) THEN Cast(k, req'.body[k]) ELSE d[k]]_vars

(* --------------------- the owner of a task: SpecOwner ----------------- *)

OwnerBodies ==
  {Base, With(Base, "user", "u1"), With(Base, "user", "u2"),
   With(With(Base, "status", "Completed"), "order", 1),
   Without(Base, "title")}

NextOwner ==
  \/ Create(Users, OwnerBodies, 0, MaxTasks)
  \/ Put(Users, OwnerBodies, 0, MaxTasks)
  \/ Delete(Users, MaxTasks)
  \/ List(Users, {Empty})

SpecOwner == Init /\ [][NextOwner]_vars

\* C4 as the claim states it: every stored task is owned by the principal that
\* created it.
C4_OwnerImmutable == \A d \in tasks : d.user = creator[d._id]

\* C5 as the claim states it: a request of one principal leaves what every
\* other principal's List returns, the tasks and their fields, as it was.
C5_PrincipalsIsolated ==
  [][\A b \in Users :
       (req'.op \in {"Create", "Update", "Delete", "Reorder"} /\ b # req'.user)
       => {d \in tasks' : d.user = b} = {d \in tasks : d.user = b}]_vars

\* C9: the task a successful Create persists and returns is owned by the
\* caller, whatever `user` the body carries, has status Pending when the body
\* has no status and order 0 when the body has no order.
C9_CreateDefaults ==
  (req.op = "Create" /\ resp.code = 201)
  => /\ Len(resp.data) = 1
     /\ resp.data[1] \in tasks
     /\ resp.data[1].user = req.user
     /\ ~Has(req.body, "status") => resp.data[1].status = "Pending"
     /\ Has(req.body, "status") => resp.data[1].status = req.body.status
     /\ ~Has(req.body, "order") => resp.data[1].order = 0
     /\ Has(req.body, "order") => resp.data[1].order = req.body.order

\* C9's case: a Create whose body names another principal as `user` and has
\* neither status nor order has succeeded.
C9_Witness ==
  /\ req.op = "Create" /\ resp.code = 201
  /\ Has(req.body, "user") /\ req.body.user # req.user
  /\ ~Has(req.body, "status") /\ ~Has(req.body, "order")

(* ------------------------ List and Delete: SpecList ------------------- *)

Other ==
  [title |-> <<" ", "b", " ">>, category |-> "Personal", priority |-> "High",
   status |-> "Completed", order |-> 1, dueDate |-> Iso(DayLen)]

ListBodies ==
  {Base, With(Base, "order", 1), Other, With(Base, "dueDate", NotIso),
   With(Base, "title", LongTitle), With(Base, "category", "Bogus")}

Queries ==
  {Empty, [category |-> "Work"], [category |-> ""], [status |-> "Completed"],
   [priority |-> "High"], [category |-> "Work", status |-> "Pending"],
   [category |-> "Study"], [dueDate |-> Iso(DayLen + 1)], [dueDate |-> Iso(0)]}

NextList ==
  \/ Create(Users, ListBodies, 0, MaxTasks)
  \/ Put(Users, {With(Base, "order", 1)}, 0, MaxTasks)
  \/ Delete(Users, MaxTasks)
  \/ List(Users, Queries)

SpecList == Init /\ [][NextList]_vars

\* A filter is supplied when the query names it with a value that is not empty.
Supplied(query, k) == Has(query, k) /\ query[k] # ""

\* The stored tasks of the caller u that match every supplied filter of the query.
Expected(u, query) ==
  {d \in tasks :
     /\ d.user = u
     /\ Supplied(query, "category") => d.category = query.category
     /\ Supplied(query, "status") => d.status = query.status
     /\ Supplied(query, "priority") => d.priority = query.priority
     /\ Has(query, "dueDate") =>
          \E x \in d.dueDate : x \div DayLen = query.dueDate.ms \div DayLen}

\* C6: List answers without an error with exactly the stored tasks of the
\* caller that match every supplied filter, each once, in ascending order of
\* `order`; with no filter these are all of the caller's tasks, never a task
\* of another principal, and the empty sequence when nothing matches.
C6_ListExact ==
  req.op = "List"
  => /\ resp.code = 200
     /\ {resp.data[i] : i \in DOMAIN resp.data} = Expected(req.user, req.query)
     /\ Len(resp.data) = Cardinality(Expected(req.user, req.query))
     /\ \A i, j \in DOMAIN resp.data : i < j => resp.data[i].order <= resp.data[j].order
     /\ \A i \in DOMAIN resp.data : resp.data[i].user = req.user
     /\ req.query = Empty
          => {resp.data[i] : i \in DOMAIN resp.data} = {d \in tasks : d.user = req.user}

\* C6's case: a filtered List has answered two tasks of the caller, the one
\* created later first because its order is the smaller.
C6_Witness ==
  /\ req.op = "List" /\ Supplied(req.query, "category")
  /\ Len(resp.data) = 2 /\ resp.data[1].order < resp.data[2].order
  /\ resp.data[1]._id = ObjectIds[2] /\ resp.data[2]._id = ObjectIds[1]

\* C6's other case: a List that matches nothing has answered the empty sequence.
C6_WitnessEmpty ==
  /\ req.op = "List" /\ resp.code = 200 /\ resp.data = <<>>
  /\ \E d \in tasks : d.user = req.user

IdsOf(coll) == {d._id : d \in coll}

C7_WitnessForeign ==
  /\ req.op = "Delete" /\ resp.code = 404
  /\ \E d \in tasks : d._id = req.id /\ d.user # req.user

IdSeqs ==
  {s \in [1..MaxTasks -> Ids] : \A i, j \in 1..MaxTasks : i # j => s[i] # s[j]}

Entries(s) == [i \in DOMAIN s |-> [_id |-> s[i]]]

ReorderBodies ==
  {[tasks |-> Entries(s)] : s \in IdSeqs}
    \cup {With(Base, "tasks", Entries(s)) : s \in IdSeqs}

RouteBodies == {Base, With(Base, "order", 1)} \cup ReorderBodies

NextRoute ==
  \/ Create(Users, {Base}, 0, MaxTasks)
  \/ Put(Users, RouteBodies, 0, MaxTasks)
  \/ Delete(Users, MaxTasks)
  \/ List(Users, {Empty})

SpecRoute == Init /\ [][NextRoute]_vars

\* C2 as the claim states it: after a PUT /reorder with a sequence of task
\* identifiers, every task of the caller that the sequence names has its
\* zero-based place in the sequence as its order, and the request has left
\* every task of another principal as it was.
C2_ReorderByPosition ==
  [][(req'.id = "reorder" /\ Has(req'.body, "tasks"))
     => /\ \A i \in DOMAIN req'.body.tasks : \A d \in tasks' :
             (d._id = req'.body.tasks[i]._id /\ d.user = req'.user) => d.order = i - 1
        /\ \A d \in tasks : d.user # req'.user => d \in tasks']_vars

(* ------------------- dueDate and reminder: SpecDates ------------------ *)

\* The requests of one principal on at most MaxDated tasks, with the clock
\* running up to MaxTime.

\* Bodies whose dates are at the clock of the request or right after it.
DateBodies ==
  {Base}
    \cup {With(Base, k, Iso(t)) : k \in {"dueDate", "reminder"}, t \in now..(now + 1)}

NextDates ==
  \/ Create({"u1"}, DateBodies, MaxTime, MaxDated)
  \/ Put({"u1"}, DateBodies, MaxTime, MaxDated)
  \/ Delete({"u1"}, MaxDated)
  \/ List({"u1"}, {Empty})

SpecDates == Init /\ [][NextDates]_vars

DatePaths == {"dueDate", "reminder"}

C8_WitnessRejected ==
  /\ req.op \in {"Create", "Update"} /\ resp.code = 400
  /\ Has(req.body, "dueDate") /\ req.body.dueDate.iso /\ req.body.dueDate.ms = req.at
  /\ \E e \in resp.errors : e.path = "dueDate"

(* --------- the handler of PUT /reorder on its own: SpecReorder -------- *)

\* The handler of lines 171-201 as it runs for a request that is handed to
\* it, its bulk write one updateOne at a time: the store applies each write
\* atomically and other requests run between two writes.  A slot holds one
\* such request.

ReorderBegin(p, u, body) ==
  /\ bulk[p].pc = "idle"
  /\ req' = Request("Reorder", u, "reorder", body, Empty)
  /\ UNCHANGED <<tasks, now, nextId, creator>>
  /\ IF ~Has(body, "tasks")
     THEN /\ resp' = Response(400, {}, <<>>)
          /\ UNCHANGED bulk
     ELSE /\ bulk' = [bulk EXCEPT ![p] =
                        [pc |-> "writing", user |-> u, ops |-> bulkOps(body, u), i |-> 1]]
          /\ UNCHANGED resp

BulkWriteOne(p) ==
  /\ bulk[p].pc = "writing"
  /\ bulk[p].i <= Len(bulk[p].ops)
  /\ tasks' = updateOne(tasks, bulk[p].ops[bulk[p].i])
  /\ bulk' = [bulk EXCEPT ![p].i = @ + 1]
  /\ UNCHANGED <<now, nextId, req, resp, creator>>

ReorderEnd(p) ==
  /\ bulk[p].pc = "writing"
  /\ bulk[p].i > Len(bulk[p].ops)
  /\ bulk' = [bulk EXCEPT ![p].pc = "done"]
  /\ resp' = Response(200, {}, <<>>)
  /\ UNCHANGED <<tasks, now, nextId, req, creator>>

Reorder(U, B) == \E p \in Slots, u \in U, body \in B : ReorderBegin(p, u, body)

BulkWrite == \E p \in Slots : BulkWriteOne(p)

ReorderDone == \E p \in Slots : ReorderEnd(p)

\* The sequences the reorders carry: every arrangement of all the identifiers,
\* and the sequence that names the first identifier alone.
ReorderSeqs == IdSeqs \cup {<<ObjectIds[1]>>}

NextReorder ==
  \/ Create(Users, {Base}, 0, MaxTasks)
  \/ Reorder({"u1"}, {[tasks |-> Entries(s)] : s \in ReorderSeqs} \cup {Empty})
  \/ BulkWrite
  \/ ReorderDone

SpecReorder == Init /\ [][NextReorder]_vars

Finished(p) == bulk[p].pc = "done"

Places(p) == {<<bulk[p].ops[i]._id, i - 1>> : i \in DOMAIN bulk[p].ops}

Orders == {<<d._id, d.order>> : d \in tasks}

====
